---- MODULE Spec2Model ----
(***************************************************************************)
(* A model of greenis: the RESP codec (src/src/codec.rs), the value and    *)
(* command model (src/src/types.rs) and the per-connection loop            *)
(* (src/src/main.rs).                                                      *)
(*                                                                         *)
(* Bytes are modelled as one-character strings, byte strings as sequences  *)
(* of them.  The texts of replies ("OK", "PONG", the error messages) are   *)
(* kept as a single token: nothing in the program looks inside them.       *)
(***************************************************************************)
EXTENDS Integers, Sequences, FiniteSets, TLC

(***************************************************************************)
(* Bounds of the model.                                                    *)
(***************************************************************************)
\* longest bulk-string payload of the generated arrays
MaxPayload == 2
\* largest element count of the generated arrays
MaxElems == 2
\* connections accepted by the listener
NConn == 2
\* most bytes one read of the socket delivers
ReadLen == 16
\* most writes (SET, APPEND) one caller of execute issues
MaxWrites == 2

(***************************************************************************)
(* Bytes.                                                                  *)
(***************************************************************************)
CR == "\r"
LF == "\n"
CRLF == <<CR, LF>>
\* a byte that is valid in no UTF-8 text (0xFF)
BadByte == "xFF"

Take(s, n) == SubSeq(s, 1, n)
Drop(s, n) == SubSeq(s, n + 1, Len(s))

SetMin(S) == CHOOSE x \in S : \A y \in S : x <= y

RECURSIVE Flatten(_)
Flatten(ss) == IF ss = <<>> THEN <<>> ELSE Head(ss) \o Flatten(Tail(ss))

DigitChars == <<"0", "1", "2", "3", "4", "5", "6", "7", "8", "9">>
IsDigit(b) == \E i \in 1..10 : DigitChars[i] = b
DigitVal(b) == (CHOOSE i \in 1..10 : DigitChars[i] = b) - 1

\* usize::to_string / i64::to_string
RECURSIVE NatToString(_)
NatToString(n) ==
    IF n < 10 THEN <<DigitChars[n + 1]>>
    ELSE NatToString(n \div 10) \o <<DigitChars[(n % 10) + 1]>>
IntToString(i) == IF i < 0 THEN <<"-">> \o NatToString(-i) ELSE NatToString(i)

\* str::from_utf8 succeeds
IsUtf8(bytes) == \A i \in 1..Len(bytes) : bytes[i] # BadByte

\* char::is_whitespace on the bytes of the model
IsSpace(b) == b \in {" ", "\t", CR, LF}

(***************************************************************************)
(* RespValue (types.rs).  Every value carries the same fields, so that any *)
(* two values can be compared: t the variant, s the bytes or text, n the   *)
(* integer, a the elements, d the optional detail of an Error (<<>> for    *)
(* None, <<text>> for Some).                                               *)
(***************************************************************************)
RespValue(t, s, n, a, d) == [t |-> t, s |-> s, n |-> n, a |-> a, d |-> d]
Null == RespValue("Null", <<>>, 0, <<>>, <<>>)
SimpleString(text) == RespValue("SimpleString", text, 0, <<>>, <<>>)
Error(text, detail) == RespValue("Error", text, 0, <<>>, detail)
Integer(i) == RespValue("Integer", <<>>, i, <<>>, <<>>)
BulkString(bytes) == RespValue("BulkString", bytes, 0, <<>>, <<>>)
Array(values) == RespValue("Array", <<>>, 0, values, <<>>)
\* stands for "no value" where a record is needed (Option::None)
NoValue == RespValue("None", <<>>, 0, <<>>, <<>>)

(***************************************************************************)
(* The decoder (codec.rs).  The parser is built from combine's partial     *)
(* parsers and is run by combine::stream::decode on a PartialStream: a     *)
(* parser that meets the end of the input fails with "end of input", the   *)
(* bytes of the parsers that had completed stay consumed, and the position *)
(* reached in the grammar is kept in the codec's AnySendPartialState.      *)
(*                                                                         *)
(* DecoderState is that partial state: pos is the parser to resume         *)
(*   "Start"  choice(..): nothing committed, every alternative is retried  *)
(*   "Count"  after byte(b'*'): the integer() of array()                   *)
(*   "Elem"   in count_min_max: byte(b'$') of the next element             *)
(*   "Len"    after byte(b'$'): the integer() of bulk()                    *)
(*   "Data"   take(length)                                                 *)
(*   "Term"   range(b"\r\n")                                              *)
(* count is the array's length, elems the elements collected so far, len   *)
(* the bulk string's length and data its payload once taken.               *)
(***************************************************************************)
DecoderState(pos, count, elems, len, data) ==
    [pos |-> pos, count |-> count, elems |-> elems, len |-> len, data |-> data]
\* RespCodec::new: state: Default::default()
NewState == DecoderState("Start", 0, <<>>, 0, <<>>)

\* &str::trim
RECURSIVE TrimStart(_)
TrimStart(s) == IF s # <<>> /\ IsSpace(Head(s)) THEN TrimStart(Tail(s)) ELSE s
RECURSIVE TrimEnd(_)
TrimEnd(s) ==
    IF s # <<>> /\ IsSpace(s[Len(s)]) THEN TrimEnd(Take(s, Len(s) - 1)) ELSE s
Trim(s) == TrimEnd(TrimStart(s))

RECURSIVE DigitsValue(_)
DigitsValue(ds) ==
    IF ds = <<>> THEN 0 ELSE 10 * DigitsValue(Take(ds, Len(ds) - 1)) + DigitVal(ds[Len(ds)])

\* str::parse::<i64>: an optional sign, then one or more digits
ParseI64(text) ==
    LET signed == text # <<>> /\ Head(text) \in {"-", "+"}
        digits == IF signed THEN Tail(text) ELSE text
        good == digits # <<>> /\ \A i \in 1..Len(digits) : IsDigit(digits[i])
    IN  IF ~good THEN [ok |-> FALSE, val |-> 0]
        ELSE [ok |-> TRUE,
              val |-> IF signed /\ Head(text) = "-" THEN -DigitsValue(digits)
                      ELSE DigitsValue(digits)]

\* str::split_whitespace: cur is the part being collected
RECURSIVE SplitFrom(_, _)
SplitFrom(s, cur) ==
    IF s = <<>> THEN (IF cur = <<>> THEN <<>> ELSE <<cur>>)
    ELSE IF IsSpace(Head(s))
         THEN (IF cur = <<>> THEN <<>> ELSE <<cur>>) \o SplitFrom(Tail(s), <<>>)
         ELSE SplitFrom(Tail(s), Append(cur, Head(s)))
SplitWhitespace(s) == SplitFrom(s, <<>>)

\* take_until_bytes(b"\r\n"): the offset of the first CR LF, or -1
FindCRLF(inp) ==
    IF \E i \in 1..(Len(inp) - 1) : inp[i] = CR /\ inp[i + 1] = LF
    THEN SetMin({i \in 1..(Len(inp) - 1) : inp[i] = CR /\ inp[i + 1] = LF}) - 1
    ELSE -1

\* line(): the bytes up to the first CR LF, as text; both are consumed.
\* Nothing is consumed until the terminator is there (recognize resets
\* the input).  kind is "Ok", "Eoi" (end of input) or "Err" (not UTF-8).
LineAt(inp, at) ==
    IF at < 0 THEN [kind |-> "Eoi", text |-> <<>>, used |-> 0]
    ELSE IF ~IsUtf8(Take(inp, at)) THEN [kind |-> "Err", text |-> <<>>, used |-> 0]
    ELSE [kind |-> "Ok", text |-> Take(inp, at), used |-> at + 2]
line(inp) == LineAt(inp, FindCRLF(inp))

\* integer(): a line that parses as i64 once trimmed ("Invalid Integer")
IntegerOf(l, i) ==
    IF l.kind # "Ok" THEN [kind |-> l.kind, val |-> 0, used |-> 0]
    ELSE IF ~i.ok THEN [kind |-> "Err", val |-> 0, used |-> 0]
    ELSE [kind |-> "Ok", val |-> i.val, used |-> l.used]
IntegerOfLine(l) == IntegerOf(l, ParseI64(Trim(l.text)))
integer(inp) == IntegerOfLine(line(inp))

\* simple_command: the parts of a line, each a BulkString
BulkStrings(parts) == Array([i \in 1..Len(parts) |-> BulkString(parts[i])])
simple_command(text) == BulkStrings(SplitWhitespace(text))

\* The three results of a run of the parser: a value (the state is back at
\* the start), the end of the input (the state is kept), an error.
\* (mutant) the state of a finished array is left behind for the next value
ParseOkKeepsArray(val, removed) ==
    [kind |-> "Ok", val |-> val, removed |-> removed,
     state |-> [NewState EXCEPT !.pos = "Elem"]]
ParseOk(val, removed) ==
    [kind |-> "Ok", val |-> val, removed |-> removed, state |-> NewState]
\* (mutant) the partial state is not kept from one call to the next
ParseEoiForgetful(st, removed) ==
    [kind |-> "Eoi", val |-> NoValue, removed |-> removed, state |-> NewState]
ParseEoi(st, removed) ==
    [kind |-> "Eoi", val |-> NoValue, removed |-> removed, state |-> st]
ParseErr(st, removed) ==
    [kind |-> "Err", val |-> NoValue, removed |-> removed, state |-> st]

\* One parser of resp_parser() applied in state st to the input inp: either
\* the run is over (done, with its result out) or the parser has completed
\* and the run goes on in the state st, the input inp, removed bytes consumed.
Continue(inp, st, removed) ==
    [done |-> FALSE, out |-> ParseEoi(st, removed), inp |-> inp, st |-> st,
     removed |-> removed]
Finish(out) ==
    [done |-> TRUE, out |-> out, inp |-> <<>>, st |-> out.state,
     removed |-> out.removed]

\* simple_command(), given its line l
InlineStep(st, removed, l) ==
    CASE l.kind = "Eoi" -> Finish(ParseEoi(st, removed))
      [] l.kind = "Err" -> Finish(ParseErr(st, removed))
      [] OTHER -> Finish(ParseOk(simple_command(l.text), removed + l.used))

\* "Start": choice((byte(b'*').with(array()), simple_command())).  A failure
\* at the end of the input that has consumed nothing leaves the choice open.
StartStep(inp, st, removed) ==
    IF inp = <<>> THEN Finish(ParseEoi(st, removed))
    ELSE IF Head(inp) = "*"
         THEN Continue(Tail(inp), [st EXCEPT !.pos = "Count"], removed + 1)
    ELSE InlineStep(st, removed, line(inp))

\* (mutant) a negative count is read as an empty array
CountStepNoNull(inp, st, removed, i) ==
    CASE i.kind = "Eoi" -> Finish(ParseEoi(st, removed))
      [] i.kind = "Err" -> Finish(ParseErr(st, removed))
      [] i.val <= 0 -> Finish(ParseOk(Array(<<>>), removed + i.used))
      [] OTHER -> Continue(Drop(inp, i.used),
                           [st EXCEPT !.pos = "Elem", !.count = i.val, !.elems = <<>>],
                           removed + i.used)
\* "Count": array(), integer().then_partial(..), given its integer i
CountStep(inp, st, removed, i) ==
    CASE i.kind = "Eoi" -> Finish(ParseEoi(st, removed))
      [] i.kind = "Err" -> Finish(ParseErr(st, removed))
      [] i.val < 0 -> Finish(ParseOk(Null, removed + i.used))
      [] OTHER -> Continue(Drop(inp, i.used),
                           [st EXCEPT !.pos = "Elem", !.count = i.val, !.elems = <<>>],
                           removed + i.used)

\* "Elem": count_min_max(length, length, byte(b'$').with(bulk()))
ElemStep(inp, st, removed) ==
    IF Len(st.elems) = st.count THEN Finish(ParseOk(Array(st.elems), removed))
    ELSE IF inp = <<>> THEN Finish(ParseEoi(st, removed))
    ELSE IF Head(inp) = "$"
         THEN Continue(Tail(inp), [st EXCEPT !.pos = "Len"], removed + 1)
    ELSE Finish(ParseErr(st, removed))

\* "Len": bulk(), integer().then_partial(..), given its integer i
LenStep(inp, st, removed, i) ==
    CASE i.kind = "Eoi" -> Finish(ParseEoi(st, removed))
      [] i.kind = "Err" -> Finish(ParseErr(st, removed))
      [] i.val < 0 -> Continue(Drop(inp, i.used),
                               [st EXCEPT !.pos = "Elem", !.elems = Append(@, Null)],
                               removed + i.used)
      [] OTHER -> Continue(Drop(inp, i.used),
                           [st EXCEPT !.pos = "Data", !.len = i.val],
                           removed + i.used)

\* (mutant) the payload is read up to the next CR LF
DataStepScan(inp, st, removed) ==
    IF \A i \in 1..(Len(inp) - 1) : ~(inp[i] = CR /\ inp[i + 1] = LF)
    THEN Finish(ParseEoi(st, removed))
    ELSE Continue(Drop(inp, SetMin({i \in 1..(Len(inp) - 1) : inp[i] = CR /\ inp[i + 1] = LF}) - 1),
                  [st EXCEPT !.pos = "Term",
                             !.data = Take(inp, SetMin({i \in 1..(Len(inp) - 1) :
                                                          inp[i] = CR /\ inp[i + 1] = LF}) - 1)],
                  removed + SetMin({i \in 1..(Len(inp) - 1) : inp[i] = CR /\ inp[i + 1] = LF}) - 1)
\* "Data": take(length as usize)
DataStep(inp, st, removed) ==
    IF Len(inp) < st.len THEN Finish(ParseEoi(st, removed))
    ELSE Continue(Drop(inp, st.len),
                  [st EXCEPT !.pos = "Term", !.data = Take(inp, st.len)],
                  removed + st.len)

\* "Term": .skip(range(&b"\r\n"[..]))
TermStep(inp, st, removed) ==
    IF Len(inp) < 2 THEN Finish(ParseEoi(st, removed))
    ELSE IF Take(inp, 2) = CRLF
         THEN Continue(Drop(inp, 2),
                       [st EXCEPT !.pos = "Elem",
                                  !.elems = Append(@, BulkString(st.data)),
                                  !.len = 0, !.data = <<>>],
                       removed + 2)
    ELSE Finish(ParseErr(st, removed))

ParserStep(inp, st, removed) ==
    CASE st.pos = "Start" -> StartStep(inp, st, removed)
      [] st.pos = "Count" -> CountStep(inp, st, removed, integer(inp))
      [] st.pos = "Elem" -> ElemStep(inp, st, removed)
      [] st.pos = "Len" -> LenStep(inp, st, removed, integer(inp))
      [] st.pos = "Data" -> DataStep(inp, st, removed)
      [] OTHER -> TermStep(inp, st, removed)

\* resp_parser(), resumed in state st on the input inp, removed bytes
\* having been consumed by this run so far
RECURSIVE resp_parser(_, _, _)
Resume(s) == IF s.done THEN s.out ELSE resp_parser(s.inp, s.st, s.removed)
resp_parser(inp, st, removed) == Resume(ParserStep(inp, st, removed))

\* (mutant) the whole buffer is dropped instead of the consumed bytes
AdvanceClear(src, n) == IF n = 0 THEN src ELSE <<>>
\* BytesMut::advance
Advance(src, n) == Drop(src, n)

\* What decode returns for the result r of combine::stream::decode on the
\* buffer src.  res is "Some" (a value), "None" (more input is needed),
\* "Err" (the parser's error) or "Panic" (the error message is built with
\* str::from_utf8(src).unwrap(), which panics on a buffer that is not UTF-8).
\* On an error the function returns before src.advance.
Decoded(src, r) ==
    CASE r.kind = "Err" ->
           [res |-> IF IsUtf8(src) THEN "Err" ELSE "Panic", val |-> NoValue,
            removed |-> 0, src |-> src, state |-> r.state]
      [] r.kind = "Eoi" ->
           [res |-> "None", val |-> NoValue, removed |-> r.removed,
            src |-> Advance(src, r.removed), state |-> r.state]
      [] OTHER ->
           [res |-> "Some", val |-> r.val, removed |-> r.removed,
            src |-> Advance(src, r.removed), state |-> r.state]

\* RespCodec::decode on the buffer src with the codec's state st
decode(src, st) == Decoded(src, resp_parser(src, st, 0))

(***************************************************************************)
(* The encoder (codec.rs).                                                 *)
(***************************************************************************)
encode_string(prefix, text) == <<prefix>> \o text \o CRLF

\* (mutant) the terminator of the payload is left out
encode_bulk_unterminated(bytes) == <<"$">> \o NatToString(Len(bytes)) \o CRLF \o bytes
\* the BulkString arm of encode
encode_bulk(bytes) == <<"$">> \o NatToString(Len(bytes)) \o CRLF \o bytes \o CRLF

RECURSIVE encode(_)
encode(resp) ==
    CASE resp.t = "Null" -> <<"$", "-", "1">> \o CRLF
      [] resp.t = "SimpleString" -> encode_string("+", resp.s)
      [] resp.t = "Error" -> encode_string("-", resp.s)
      [] resp.t = "Integer" -> encode_string(":", IntToString(resp.n))
      [] resp.t = "BulkString" -> encode_bulk(resp.s)
      [] resp.t = "Array" ->
           <<"*">> \o NatToString(Len(resp.a)) \o CRLF
               \o Flatten([i \in 1..Len(resp.a) |-> encode(resp.a[i])])

\* The encoder of main.rs, which has no arm for Integer: Ok with the bytes,
\* Err("Unsuported Type") for an Integer, and the panic of unwrap() for an
\* array when the encoding of one of its elements does not return Ok.
EncodeOk(bytes) == [res |-> "Ok", bytes |-> bytes]
RECURSIVE main_encode(_)
main_encode_array(values, parts) ==
    IF \E i \in 1..Len(parts) : parts[i].res # "Ok"
    THEN [res |-> "Panic", bytes |-> <<>>]
    ELSE EncodeOk(<<"*">> \o NatToString(Len(values)) \o CRLF
                  \o Flatten([i \in 1..Len(parts) |-> parts[i].bytes]))
main_encode(resp) ==
    CASE resp.t = "Null" -> EncodeOk(<<"$", "-", "1", CR, LF>>)
      [] resp.t = "SimpleString" -> EncodeOk(<<"+">> \o resp.s \o CRLF)
      [] resp.t = "Error" -> EncodeOk(<<"-">> \o resp.s \o CRLF)
      [] resp.t = "BulkString" ->
           EncodeOk(<<"$">> \o NatToString(Len(resp.s)) \o CRLF \o resp.s \o CRLF)
      [] resp.t = "Array" ->
           main_encode_array(resp.a, [i \in 1..Len(resp.a) |-> main_encode(resp.a[i])])
      [] OTHER -> [res |-> "Err", bytes |-> <<>>]

(***************************************************************************)
(* The command model (types.rs).                                           *)
(***************************************************************************)
LowerChars == <<"a", "b", "c", "d", "e", "f", "g", "h", "i", "j", "k", "l", "m",
                "n", "o", "p", "q", "r", "s", "t", "u", "v", "w", "x", "y", "z">>
UpperChars == <<"A", "B", "C", "D", "E", "F", "G", "H", "I", "J", "K", "L", "M",
                "N", "O", "P", "Q", "R", "S", "T", "U", "V", "W", "X", "Y", "Z">>
\* char::to_uppercase on the bytes of the model
UpperByte(b) ==
    IF \E i \in 1..26 : LowerChars[i] = b
    THEN UpperChars[CHOOSE i \in 1..26 : LowerChars[i] = b]
    ELSE b
to_uppercase(text) == [i \in 1..Len(text) |-> UpperByte(text[i])]

\* RespValue::to_string(..).unwrap_or_default(): the text of a SimpleString
\* or of a BulkString that is UTF-8, the empty string otherwise
to_string_or_default(v) ==
    CASE v.t = "SimpleString" -> v.s
      [] v.t = "BulkString" /\ IsUtf8(v.s) -> v.s
      [] OTHER -> <<>>

\* RedisCmd: c the variant, k the key, v the value (the pattern of Keys, the
\* payload of Ping), some whether Ping carries a payload
RedisCmd(c, k, v, some) == [c |-> c, k |-> k, v |-> v, some |-> some]
NoCmd == RedisCmd("None", <<>>, <<>>, FALSE)

CmdOk(cmd) == [ok |-> TRUE, cmd |-> cmd, err |-> ""]
CmdErr(msg) == [ok |-> FALSE, cmd |-> NoCmd, err |-> msg]

\* (mutant) a missing argument is taken to be the empty BulkString
get_next_value_or_empty(args) ==
    IF args = <<>>
    THEN [ok |-> TRUE, val |-> <<>>, rest |-> <<>>, err |-> ""]
    ELSE IF Head(args).t = "BulkString"
         THEN [ok |-> TRUE, val |-> Head(args).s, rest |-> Tail(args), err |-> ""]
    ELSE [ok |-> FALSE, val |-> <<>>, rest |-> Tail(args),
          err |-> "Invalid argument, must be BulkString"]
\* get_next_value: the next argument, which must be a BulkString
get_next_value(args) ==
    IF args = <<>>
    THEN [ok |-> FALSE, val |-> <<>>, rest |-> <<>>, err |-> "Not enough arguments"]
    ELSE IF Head(args).t = "BulkString"
         THEN [ok |-> TRUE, val |-> Head(args).s, rest |-> Tail(args), err |-> ""]
    ELSE [ok |-> FALSE, val |-> <<>>, rest |-> Tail(args),
          err |-> "Invalid argument, must be BulkString"]

\* a command of one argument a (GET, KEYS, EXISTS)
OneArg(c, a) ==
    IF ~a.ok THEN CmdErr(a.err)
    ELSE IF c = "Keys" THEN CmdOk(RedisCmd(c, <<>>, a.val, FALSE))
    ELSE CmdOk(RedisCmd(c, a.val, <<>>, FALSE))
\* a command of two arguments a and b (SET, APPEND); b is not read when a fails
SecondArg(c, a, b) ==
    IF ~b.ok THEN CmdErr(b.err) ELSE CmdOk(RedisCmd(c, a.val, b.val, FALSE))
TwoArgs(c, a) ==
    IF ~a.ok THEN CmdErr(a.err) ELSE SecondArg(c, a, get_next_value(a.rest))
\* PING: get_next_value(..).ok()
PingArg(a) ==
    IF a.ok THEN CmdOk(RedisCmd("Ping", <<>>, a.val, TRUE))
    ELSE CmdOk(RedisCmd("Ping", <<>>, <<>>, FALSE))

\* the match on the upper-cased name
Dispatch(name, args) ==
    CASE name = <<"G", "E", "T">> -> OneArg("Get", get_next_value(args))
      [] name = <<"S", "E", "T">> -> TwoArgs("Set", get_next_value(args))
      [] name = <<"A", "P", "P", "E", "N", "D">> -> TwoArgs("Append", get_next_value(args))
      [] name = <<"P", "I", "N", "G">> -> PingArg(get_next_value(args))
      [] name = <<"K", "E", "Y", "S">> -> OneArg("Keys", get_next_value(args))
      [] name = <<"E", "X", "I", "S", "T", "S">> -> OneArg("Exists", get_next_value(args))
      [] name = <<"C", "O", "M", "M", "A", "N", "D">> -> CmdOk(RedisCmd("Command", <<>>, <<>>, FALSE))
      [] name = <<>> -> CmdErr("No command specified")
      [] OTHER -> CmdErr("Invalid command")

\* TryFrom<RespValue> for RedisCmd
try_from(resp) ==
    IF resp.t # "Array" THEN CmdErr("Invalid command")
    ELSE IF resp.a = <<>> THEN CmdErr("No command specified")
    ELSE Dispatch(to_uppercase(to_string_or_default(Head(resp.a))), Tail(resp.a))

(***************************************************************************)
(* The store and RedisCmd::execute (types.rs).  The store is a function    *)
(* from the keys it holds to their values.                                 *)
(***************************************************************************)
EmptyMap == [k \in {} |-> <<>>]
\* (mutant) the insert drops every other entry
HashMapInsertAlone(map, k, v) == [x \in {k} |-> v]
\* (mutant) the insert keeps the value of a key that is there
HashMapInsertIfAbsent(map, k, v) ==
    [x \in DOMAIN map \cup {k} |-> IF x \in DOMAIN map THEN map[x] ELSE v]
\* (mutant) the insert of a new key makes room by dropping the entries
HashMapInsertEvicting(map, k, v) ==
    [x \in (IF k \in DOMAIN map THEN DOMAIN map ELSE {k}) |->
        IF x = k THEN v ELSE map[x]]
\* HashMap::insert
HashMapInsert(map, k, v) ==
    [x \in DOMAIN map \cup {k} |-> IF x = k THEN v ELSE map[x]]
\* (mutant) the entry is taken to be new
EntryAlwaysEmpty(map, k) == <<>>
\* storage.entry(key).or_insert(BulkString("")), then the value under key
EntryOrEmpty(map, k) == IF k \in DOMAIN map THEN map[k] ELSE <<>>

\* the arms of execute that lock the store
UsesLock(cmd) == cmd.c \in {"Get", "Set", "Append", "Keys", "Exists"}

\* (mutant) EXISTS makes an entry for the key it looks up
StoreAfterExistsCreates(cmd, map) ==
    CASE cmd.c = "Set" -> HashMapInsert(map, cmd.k, cmd.v)
      [] cmd.c = "Append" -> HashMapInsert(map, cmd.k, EntryOrEmpty(map, cmd.k) \o cmd.v)
      [] cmd.c = "Exists" -> HashMapInsert(map, cmd.k, EntryOrEmpty(map, cmd.k))
      [] OTHER -> map
\* (mutant) APPEND puts its argument in place of the value
StoreAfterAppendOverwrites(cmd, map) ==
    CASE cmd.c = "Set" -> HashMapInsert(map, cmd.k, cmd.v)
      [] cmd.c = "Append" -> HashMapInsert(map, cmd.k, cmd.v)
      [] OTHER -> map
\* the store after the command has run on it
StoreAfter(cmd, map) ==
    CASE cmd.c = "Set" -> HashMapInsert(map, cmd.k, cmd.v)
      [] cmd.c = "Append" -> HashMapInsert(map, cmd.k, EntryOrEmpty(map, cmd.k) \o cmd.v)
      [] OTHER -> map

\* (mutant) keys() may yield a key again in place of another
KeyOrdersRepeating(map) == [1..Cardinality(DOMAIN map) -> DOMAIN map]
\* the orders in which storage.keys() may yield the keys
KeyOrders(map) ==
    {o \in [1..Cardinality(DOMAIN map) -> DOMAIN map] :
        \A i, j \in DOMAIN o : i # j => o[i] # o[j]}

\* (mutant) EXISTS answers 1 for every key
LockedResultExistsAlways(cmd, map, order) ==
    CASE cmd.c = "Get" ->
           IF cmd.k \in DOMAIN map THEN BulkString(map[cmd.k]) ELSE Null
      [] cmd.c = "Set" -> SimpleString(<<"OK">>)
      [] cmd.c = "Append" -> Integer(Len(EntryOrEmpty(map, cmd.k) \o cmd.v))
      [] cmd.c = "Keys" -> Array([i \in 1..Len(order) |-> BulkString(order[i])])
      [] OTHER -> Integer(1)
\* the value execute returns for a command run on the store map; order is
\* the order of storage.keys() (read by KEYS alone)
LockedResult(cmd, map, order) ==
    CASE cmd.c = "Get" ->
           IF cmd.k \in DOMAIN map THEN BulkString(map[cmd.k]) ELSE Null
      [] cmd.c = "Set" -> SimpleString(<<"OK">>)
      [] cmd.c = "Append" -> Integer(Len(EntryOrEmpty(map, cmd.k) \o cmd.v))
      [] cmd.c = "Keys" -> Array([i \in 1..Len(order) |-> BulkString(order[i])])
      [] OTHER -> Integer(IF cmd.k \in DOMAIN map THEN 1 ELSE 0)

(***************************************************************************)
(* One framed stream fed from a socket (Framed::new, framed.try_next()):   *)
(* the specification SpecCodec.  sent is everything the peer sends and     *)
(* item the value it was encoded from (NoValue when the peer wrote raw     *)
(* bytes); wire is what the socket has not delivered yet, src the read     *)
(* buffer, state the codec's partial state.  frames are the values decoded *)
(* so far, marks[i] the bytes removed from the buffer up to frame i,       *)
(* removed the bytes removed in all, last the latest call of decode.       *)
(***************************************************************************)
VARIABLES sent, item, wire, src, state, is_readable, eof, frames, marks,
          removed, last, status

codecVars == <<sent, item, wire, src, state, is_readable, eof, frames, marks,
               removed, last, status>>

\* The server (main.rs): conn[c] is the task of connection c with its framed
\* stream, storage the map behind the Mutex, holder the connection whose
\* task holds the MutexGuard (0 when the Mutex is free).
VARIABLES conn, storage, holder

serverVars == <<conn, storage, holder>>

\* One caller of RedisCmd::try_from and RedisCmd::execute (types.rs): request
\* is the value handed to try_from and built what it returned, result the
\* value execute returned for the command (NoValue before it has run),
\* before the store as execute found it, latest the value each key should
\* hold by the writes issued so far, nwrites their number.
VARIABLES request, built, result, before, latest, nwrites

cmdVars == <<request, built, result, before, latest, nwrites>>
\* try_from has not been called
NotBuilt == CmdErr("")
NoCommand ==
    /\ request = NoValue /\ built = NotBuilt /\ result = NoValue
    /\ before = EmptyMap /\ latest = EmptyMap /\ nwrites = 0
\* no connection has been accepted
NoServer == conn = <<>> /\ storage = EmptyMap /\ holder = 0

SeqsUpTo(S, n) == UNION {[1..k -> S] : k \in 0..n}

\* the payloads and elements of the generated arrays
Payloads == SeqsUpTo({CR, LF}, MaxPayload)
Elements == {Null} \cup {BulkString(p) : p \in Payloads}
ArrayItems == {Array(a) : a \in SeqsUpTo(Elements, MaxElems)}
\* values of the other variants, and arrays that hold them
OtherItems ==
    { Null, SimpleString(<<"OK">>), SimpleString(<<>>), Error(<<"ERR">>, <<>>),
      Integer(0), Integer(-1), Integer(12), BulkString(<<>>), BulkString(<<"a">>),
      BulkString(<<"a", CR, LF, "b">>),
      Array(<<BulkString(<<"G", "E", "T">>), BulkString(<<"k">>)>>),
      Array(<<BulkString(<<"a", CR>>), Null, BulkString(<<LF, "b">>)>>),
      Array(<<Array(<<>>)>>), Array(<<Integer(1)>>),
      Array(<<SimpleString(<<"OK">>)>>), Array(<<BulkString(<<"a">>), Array(<<Null>>)>>) }
Items == ArrayItems \cup OtherItems

\* bytes a peer may write without encoding a value: inline lines, null
\* markers, two messages back to back, and malformed input
RawInputs ==
    { <<"G", "E", "T", " ", "k", CR, LF>>,
      <<" ", "a", " ", " ", "b", "\t", CR, LF>>,
      <<"a", CR, "b", CR, LF>>,
      <<CR, LF>>,
      <<"$", "-", "1", CR, LF>>,
      <<"*", "-", "1", CR, LF>>,
      <<"*", "-", "2", CR, LF>>,
      <<"*", "-", "1", CR, LF, "$", "1", CR, LF, "a", CR, LF>>,
      <<"*", "1", CR, LF, "$", "-", "1", CR, LF>>,
      <<"*", "1", CR, LF, "$", "-", "3", CR, LF, "a", CR, LF>>,
      <<"*", " ", "+", "1", " ", CR, LF, "$", "1", CR, LF, "a", CR, LF>>,
      <<"*", "1", CR, LF, "$", "1", CR, LF, "a", CR, LF, "b", CR, LF>>,
      <<"a", CR, LF, "*", "0", CR, LF, "*", "1", CR, LF, "$", "0", CR, LF, CR, LF>>,
      <<"*", "1", "0", CR, LF, "$", "0", CR, LF, CR, LF>>,
      <<"*", "x", CR, LF>>,
      <<"*", CR, LF>>,
      <<"*", "-", CR, LF>>,
      <<"*", "1", CR, LF, "+", "a", CR, LF>>,
      <<"*", "2", CR, LF, "$", "1", CR, LF, "a", CR, LF, ":", "1", CR, LF>>,
      <<"*", "1", CR, LF, "$", "x", CR, LF>>,
      <<"*", "1", CR, LF, "$", "1", CR, LF, "a", "b", CR, LF>>,
      <<"*", "1", CR, LF, "$", "1", CR, LF, "a", "b", "c">>,
      <<BadByte, CR, LF>>,
      <<"*", BadByte, CR, LF>>,
      <<"*", "x", CR, LF, BadByte>>,
      <<"*", "1", CR, LF, "$", "1", CR, LF, BadByte, CR, LF>>,
      <<"*", "1", CR, LF, "$", "1", CR, LF, BadByte, "a", CR, LF>>,
      <<"*", "1", CR, LF, "$">>,
      <<"*", "1", CR, LF, BadByte, CR, LF>>,
      <<"*", "2", CR, LF, "$", "0", CR, LF, CR, LF, "a", BadByte>>,
      <<"a", "b">> }

NoCall == [res |-> "NoCall", val |-> NoValue, removed |-> 0, had |-> <<>>]

InitCodec ==
    /\ \/ \E v \in Items : item = v /\ sent = encode(v)
       \/ \E b \in RawInputs : item = NoValue /\ sent = b
    /\ wire = sent
    /\ src = <<>>
    /\ state = NewState
    /\ is_readable = FALSE
    /\ eof = FALSE
    /\ frames = <<>>
    /\ marks = <<>>
    /\ removed = 0
    /\ last = NoCall
    /\ status = "open"
    /\ NoServer
    /\ NoCommand

\* One call of decode (of decode_eof when the socket is at its end) on the
\* buffer buf, r being what it returns, and what FramedRead and the loop of
\* the caller make of it: a frame is handed on and the stream stays
\* readable; without a frame the stream waits for the socket, or ends at the
\* end of the socket (with the error "bytes remaining on stream" when the
\* buffer is not empty).
Deliver(buf, atEof, r) ==
    /\ src' = r.src
    /\ state' = r.state
    /\ removed' = removed + r.removed
    /\ last' = [res |-> r.res, val |-> r.val, removed |-> r.removed, had |-> buf]
    /\ frames' = IF r.res = "Some" THEN Append(frames, r.val) ELSE frames
    /\ marks' = IF r.res = "Some" THEN Append(marks, removed + r.removed) ELSE marks
    /\ is_readable' = (r.res = "Some")
    /\ status' = CASE r.res = "Some" -> "open"
                   [] r.res = "Err" -> "error"
                   [] r.res = "Panic" -> "panic"
                   [] atEof /\ r.src = <<>> -> "end"
                   [] atEof -> "error"
                   [] OTHER -> "open"
CallDecode(buf, atEof) == Deliver(buf, atEof, decode(buf, state))

\* poll_next, not readable: the socket delivers the next k bytes, which
\* are appended to the buffer, and decode is called
PollRead(k) ==
    /\ status = "open" /\ ~is_readable /\ ~eof
    /\ k \in 1..Len(wire)
    /\ wire' = Drop(wire, k)
    /\ CallDecode(src \o Take(wire, k), FALSE)
    /\ UNCHANGED <<sent, item, eof, conn, storage, holder>>
    /\ UNCHANGED cmdVars

\* poll_next, not readable: the socket is at its end (a read of 0 bytes)
PollEof ==
    /\ status = "open" /\ ~is_readable /\ ~eof
    /\ wire = <<>>
    /\ eof' = TRUE
    /\ CallDecode(src, TRUE)
    /\ UNCHANGED <<sent, item, wire, conn, storage, holder>>
    /\ UNCHANGED cmdVars

\* poll_next, readable: the last call gave a frame, decode is called
\* again on what is left in the buffer
PollReadable ==
    /\ status = "open" /\ is_readable
    /\ CallDecode(src, eof)
    /\ UNCHANGED <<sent, item, wire, eof, conn, storage, holder>>
    /\ UNCHANGED cmdVars

NextCodec ==
    \/ \E k \in 1..Len(wire) : PollRead(k)
    \/ PollEof
    \/ PollReadable

SpecCodec == InitCodec /\ [][NextCodec]_codecVars

(***************************************************************************)
(* The server (main.rs): one task per accepted connection runs the loop of *)
(* decode() on its framed stream, all tasks share the store: the           *)
(* specification SpecServer.  A connection c is the record conn[c]:        *)
(*   script, sock    what the peer sends, and the reads of it still due    *)
(*   src, state, is_readable, eof    the framed stream of the connection   *)
(*   pc      where the task is: "poll" in framed.try_next(), "exec" at the *)
(*           start of cmd.execute(), "locked" with the MutexGuard before   *)
(*           the store is touched, "unlock" after it, "send" in            *)
(*           framed.send(), "closed" after the loop                        *)
(*   exit    why the loop ended                                            *)
(*   cmd, frame      the command being executed and the reply to send      *)
(*   reqs, sink      the values decoded and the replies written so far     *)
(*   acq     how often the running command has locked the store            *)
(***************************************************************************)
Conns == 1..NConn

KeyOf(c) == <<"k", DigitChars[c + 1]>>
ValueOf(c) == <<"v", DigitChars[c + 1]>>
SharedKey == <<"s">>

RECURSIVE JoinWords(_)
JoinWords(parts) ==
    IF Len(parts) = 1 THEN parts[1]
    ELSE parts[1] \o <<" ">> \o JoinWords(Tail(parts))
\* a request typed as a line, and a request sent as an array of bulk strings
Inline(parts) == JoinWords(parts) \o CRLF
Request(parts) == encode(BulkStrings(parts))

\* the reads of a socket that delivers n bytes at a time
RECURSIVE Chunks(_, _)
Chunks(bytes, n) ==
    IF bytes = <<>> THEN <<>>
    ELSE IF Len(bytes) <= n THEN <<bytes>>
    ELSE <<Take(bytes, n)>> \o Chunks(Drop(bytes, n), n)

\* what the peers send: a script each
ScriptList == <<"setget", "parseerr", "append", "misc",
                "badint", "badlen", "badelem", "badutf8">>
DecodeErrorScripts == {"badint", "badlen", "badelem", "badutf8"}
\* a message the decoder rejects
BadMessage(n) ==
    CASE n = "badint" -> <<"*", "x", CR, LF>>
      [] n = "badlen" -> <<"*", "1", CR, LF, "$", "x", CR, LF>>
      [] n = "badelem" -> <<"*", "1", CR, LF, "+", "a", CR, LF>>
      [] OTHER -> <<BadByte, CR, LF>>
\* messages that decode to a value which is not a command
ParseErrors(c) ==
    Inline(<<<<"F", "O", "O">>>>)
    \o <<"*", "0", CR, LF>>
    \o <<"*", "-", "1", CR, LF>>
    \o Inline(<<<<"G", "E", "T">>>>)
    \o Inline(<<<<"s", "e", "t">>, KeyOf(c)>>)
    \o <<"*", "2", CR, LF, "$", "3", CR, LF, "G", "E", "T", CR, LF, "$", "-", "1", CR, LF>>
ScriptBytes(n, c) ==
    CASE n = "setget" ->
           Request(<<<<"S", "E", "T">>, KeyOf(c), ValueOf(c)>>)
           \o Inline(<<<<"G", "E", "T">>, KeyOf(c)>>)
      [] n = "parseerr" -> ParseErrors(c) \o Inline(<<<<"P", "I", "N", "G">>>>)
      [] n = "append" ->
           Request(<<<<"A", "P", "P", "E", "N", "D">>, SharedKey, ValueOf(c)>>)
           \o Inline(<<<<"k", "e", "y", "s">>, <<"*">>>>)
      [] n = "misc" ->
           Inline(<<<<"C", "O", "M", "M", "A", "N", "D">>>>)
           \o Inline(<<<<"E", "X", "I", "S", "T", "S">>, SharedKey>>)
           \o Request(<<<<"P", "i", "n", "g">>, <<CR, LF>>>>)
      [] OTHER ->
           Inline(<<<<"P", "I", "N", "G">>>>) \o BadMessage(n)
           \o Inline(<<<<"S", "E", "T">>, KeyOf(c), ValueOf(c)>>)

\* the connections are alike but for their keys: the scripts are handed out
\* in the order of ScriptList
Assignments ==
    {f \in [Conns -> 1..Len(ScriptList)] :
        \A c, d \in Conns : c <= d => f[c] <= f[d]}

NewConn(n, c) ==
    [script |-> n, sock |-> Chunks(ScriptBytes(n, c), ReadLen),
     src |-> <<>>, state |-> NewState, is_readable |-> FALSE, eof |-> FALSE,
     pc |-> "poll", exit |-> "", cmd |-> NoCmd, frame |-> NoValue,
     reqs |-> <<>>, sink |-> <<>>, acq |-> 0]

\* no framed stream of the specification SpecCodec is open
NoCodec ==
    /\ sent = <<>> /\ item = NoValue /\ wire = <<>> /\ src = <<>>
    /\ state = NewState /\ is_readable = FALSE /\ eof = FALSE
    /\ frames = <<>> /\ marks = <<>> /\ removed = 0 /\ last = NoCall
    /\ status = "open"

\* the listener has accepted NConn connections and spawned their tasks
InitServer ==
    /\ \E f \in Assignments : conn = [c \in Conns |-> NewConn(ScriptList[f[c]], c)]
    /\ storage = EmptyMap
    /\ holder = 0
    /\ NoCodec
    /\ NoCommand

\* the framed stream of connection k after a call of decode that returned r
Buffered(k, r) ==
    [k EXCEPT !.src = r.src, !.state = r.state, !.is_readable = (r.res = "Some")]

\* break: the loop ends and the task with it
Break(k, why) == [k EXCEPT !.pc = "closed", !.exit = why]

\* (mutant) the loop ends on a value that is not a command
OnParseErrorBreak(k, err) == Break(k, "parse")
\* Err(err) of try_from: the frame to send is Error(err, None)
OnParseError(k, err) == [k EXCEPT !.pc = "send", !.frame = Error(<<err>>, <<>>)]

\* Some(resp): t is RedisCmd::try_from(resp); a command goes on to execute
Received(k, resp, t) ==
    IF t.ok
    THEN [k EXCEPT !.reqs = Append(@, resp), !.pc = "exec", !.cmd = t.cmd, !.acq = 0]
    ELSE OnParseError([k EXCEPT !.reqs = Append(@, resp), !.acq = 0], t.err)
\* (mutant) the loop drops the buffer and reads on
OnDecodeErrorSkip(k, why) ==
    [k EXCEPT !.src = <<>>, !.state = NewState, !.is_readable = FALSE]
\* Err(err) of try_next: debug!(..) and break; a panic in decode ends the
\* task in the same way
OnDecodeError(k, why) == Break(k, why)

\* what the loop does with the result r of framed.try_next() (atEof: the
\* call was decode_eof)
Handled(k, r, atEof) ==
    CASE r.res = "Some" -> Received(Buffered(k, r), r.val, try_from(r.val))
      [] r.res = "Err" -> OnDecodeError(Buffered(k, r), "error")
      [] r.res = "Panic" -> OnDecodeError(Buffered(k, r), "panic")
      [] r.res = "None" /\ atEof /\ r.src = <<>> -> Break(Buffered(k, r), "eof")
      [] r.res = "None" /\ atEof -> Break(Buffered(k, r), "truncated")
      [] OTHER -> Buffered(k, r)

\* try_next, not readable: the socket delivers the next bytes, decode runs
Read(c) ==
    /\ conn[c].pc = "poll" /\ ~conn[c].is_readable /\ ~conn[c].eof
    /\ conn[c].sock # <<>>
    /\ conn' = [conn EXCEPT ![c] =
                  Handled([conn[c] EXCEPT !.sock = Tail(@)],
                          decode(conn[c].src \o Head(conn[c].sock), conn[c].state),
                          FALSE)]
    /\ UNCHANGED <<storage, holder>>
    /\ UNCHANGED codecVars
    /\ UNCHANGED cmdVars

\* try_next, not readable: the peer has closed its side, decode_eof runs
ReadEof(c) ==
    /\ conn[c].pc = "poll" /\ ~conn[c].is_readable /\ ~conn[c].eof
    /\ conn[c].sock = <<>>
    /\ conn' = [conn EXCEPT ![c] =
                  Handled([conn[c] EXCEPT !.eof = TRUE],
                          decode(conn[c].src, conn[c].state), TRUE)]
    /\ UNCHANGED <<storage, holder>>
    /\ UNCHANGED codecVars
    /\ UNCHANGED cmdVars

\* try_next, readable: decode runs on what the buffer still holds
Readable(c) ==
    /\ conn[c].pc = "poll" /\ conn[c].is_readable
    /\ conn' = [conn EXCEPT ![c] =
                  Handled(conn[c], decode(conn[c].src, conn[c].state), conn[c].eof)]
    /\ UNCHANGED <<storage, holder>>
    /\ UNCHANGED codecVars
    /\ UNCHANGED cmdVars

\* (mutant) the fallthrough is answered like a name outside the table
UnlockedResultInvalid(cmd) ==
    CASE cmd.c = "Ping" /\ cmd.some -> BulkString(cmd.v)
      [] cmd.c = "Ping" -> SimpleString(<<"PONG">>)
      [] OTHER -> Error(<<"Invalid command">>, <<>>)
\* the arms of execute that do not lock: Ping, and the fallthrough whose
\* Err(()) the loop turns into Error("NOT_IMPLEMENTED", None)
UnlockedResult(cmd) ==
    CASE cmd.c = "Ping" /\ cmd.some -> BulkString(cmd.v)
      [] cmd.c = "Ping" -> SimpleString(<<"PONG">>)
      [] OTHER -> Error(<<"NOT_IMPLEMENTED">>, <<>>)

ExecuteUnlocked(c) ==
    /\ conn[c].pc = "exec" /\ ~UsesLock(conn[c].cmd)
    /\ conn' = [conn EXCEPT ![c].frame = UnlockedResult(conn[c].cmd),
                            ![c].pc = "send"]
    /\ UNCHANGED <<storage, holder>>
    /\ UNCHANGED codecVars
    /\ UNCHANGED cmdVars

\* (mutant) lock() returns although another task holds the guard
MutexFreeAlways(h) == TRUE
\* (mutant) lock() never returns
MutexFreeNever(h) == FALSE
\* storage.lock() returns when no task holds the guard
MutexFree(h) == h = 0

\* storage.lock().unwrap()
Lock(c) ==
    /\ conn[c].pc = "exec" /\ UsesLock(conn[c].cmd)
    /\ MutexFree(holder)
    /\ holder' = c
    /\ conn' = [conn EXCEPT ![c].pc = "locked", ![c].acq = @ + 1]
    /\ UNCHANGED storage
    /\ UNCHANGED codecVars
    /\ UNCHANGED cmdVars

\* the read or the mutation of the store, under the guard
Operate(c) ==
    /\ conn[c].pc = "locked"
    /\ \E order \in KeyOrders(IF conn[c].cmd.c = "Keys" THEN storage ELSE EmptyMap) :
          conn' = [conn EXCEPT ![c].frame = LockedResult(conn[c].cmd, storage, order),
                               ![c].pc = "unlock"]
    /\ storage' = StoreAfter(conn[c].cmd, storage)
    /\ UNCHANGED holder
    /\ UNCHANGED codecVars
    /\ UNCHANGED cmdVars

\* the guard is dropped at the end of the arm; execute returns Ok(result)
Unlock(c) ==
    /\ conn[c].pc = "unlock"
    /\ holder' = 0
    /\ conn' = [conn EXCEPT ![c].pc = "send"]
    /\ UNCHANGED storage
    /\ UNCHANGED codecVars
    /\ UNCHANGED cmdVars

\* (mutant) the writer puts the frame in front of what it has written
SinkPushFront(sink, frame) == <<frame>> \o sink
\* the writer takes the frame after what it has written
SinkPush(sink, frame) == Append(sink, frame)

\* framed.send(frame).await
Send(c) ==
    /\ conn[c].pc = "send"
    /\ conn' = [conn EXCEPT ![c].sink = SinkPush(@, conn[c].frame),
                            ![c].frame = NoValue,
                            ![c].cmd = NoCmd,
                            ![c].pc = "poll"]
    /\ UNCHANGED <<storage, holder>>
    /\ UNCHANGED codecVars
    /\ UNCHANGED cmdVars

\* a step of the task of connection c
Task(c) ==
    \/ Read(c)
    \/ ReadEof(c)
    \/ Readable(c)
    \/ ExecuteUnlocked(c)
    \/ Lock(c)
    \/ Operate(c)
    \/ Unlock(c)
    \/ Send(c)

NextServer == \E c \in Conns : Task(c)

vars == <<codecVars, serverVars, cmdVars>>

SpecServer == InitServer /\ [][NextServer]_vars

\* the steps of the task of c from a decoded request to the written reply
Execution(c) ==
    ExecuteUnlocked(c) \/ Lock(c) \/ Operate(c) \/ Unlock(c) \/ Send(c)
\* the task of c is at framed.try_next(): one of Read, ReadEof and Readable
\* can be taken
Polling(c) == conn[c].pc = "poll"
\* the step of the task of c at framed.try_next()
PollStep(c) == conn[c].pc = "poll" /\ conn'[c] # conn[c]

\* The runtime polls every task that can run (tokio::spawn of decode for each
\* accepted socket): a task that stays able to take a step takes one.
\* Nothing is assumed about the order in which waiting tasks get the lock.
\* The condition on the steps at try_next is weak fairness of
\* Read(c) \/ ReadEof(c) \/ Readable(c) written out, Polling(c) being the
\* states where that action can be taken.
FairSpecServer ==
    /\ SpecServer
    /\ \A c \in Conns :
          /\ WF_vars(Execution(c))
          /\ ([]<>(~Polling(c)) \/ []<><<PollStep(c)>>_vars)

(***************************************************************************)
(* One caller that hands values to RedisCmd::try_from and runs the         *)
(* commands it gets on one store, one after the other: the specification   *)
(* SpecCommands.                                                           *)
(***************************************************************************)
\* the names of the table, names in other case, names outside the table
TableNames ==
    { <<"G", "E", "T">>, <<"S", "E", "T">>, <<"A", "P", "P", "E", "N", "D">>,
      <<"P", "I", "N", "G">>, <<"K", "E", "Y", "S">>,
      <<"E", "X", "I", "S", "T", "S">>, <<"C", "O", "M", "M", "A", "N", "D">> }
OtherCaseNames == { <<"a", "p", "P", "e", "n", "d">> }
UnknownNames == { <<"F", "O", "O", "O">> }
\* what an array may hold in the place of the name
NameValues ==
    {BulkString(n) : n \in TableNames \cup OtherCaseNames \cup UnknownNames}
    \cup { BulkString(<<>>), BulkString(<<BadByte>>), Null,
           SimpleString(<<"P", "I", "N", "G">>) }
\* the keys and the values of the commands
CmdKeys == { <<"k">>, <<"j">> }
CmdValues == { <<"a", "b">>, <<"c", "d">> }
\* the arguments after the name: none, a key, a key and a value, a null in
\* the place of either, one argument too many
ArgLists ==
    {<<>>, <<Null>>}
    \cup {<<BulkString(k)>> : k \in CmdKeys}
    \cup {<<BulkString(k), BulkString(v)>> : k \in CmdKeys, v \in CmdValues}
    \cup { <<BulkString(<<"k">>), Null>>, <<Null, BulkString(<<"a", "b">>)>>,
           <<BulkString(<<"k">>), BulkString(<<"a", "b">>), BulkString(<<"c", "d">>)>> }
\* the values handed to try_from
CommandInputs ==
    {Array(<<n>> \o args) : n \in NameValues, args \in ArgLists}
    \cup { Array(<<>>), Null, Integer(0), SimpleString(<<"P", "I", "N", "G">>),
           BulkString(<<"G", "E", "T">>), Error(<<"ERR">>, <<>>) }

IsWrite(t) == t.ok /\ t.cmd.c \in {"Set", "Append"}
\* the value key k should hold after the write cmd, by what SET and APPEND
\* are to do
Written(map, cmd) ==
    [x \in DOMAIN map \cup {cmd.k} |->
        IF x # cmd.k THEN map[x]
        ELSE IF cmd.c = "Append" /\ x \in DOMAIN map THEN map[x] \o cmd.v
        ELSE cmd.v]

InitCommands ==
    /\ NoCommand
    /\ NoServer
    /\ NoCodec

\* the caller has t, what try_from returned for resp
Built(resp, t) ==
    /\ IsWrite(t) => nwrites < MaxWrites
    /\ request' = resp
    /\ built' = t
    /\ result' = NoValue
\* RedisCmd::try_from(resp), once the command before it has run
TryFrom(resp) ==
    /\ ~built.ok \/ result # NoValue
    /\ Built(resp, try_from(resp))
    /\ UNCHANGED <<before, latest, nwrites>>
    /\ UNCHANGED serverVars
    /\ UNCHANGED codecVars

\* cmd.execute(storage), its Err(()) made the frame Error("NOT_IMPLEMENTED")
Execute ==
    /\ built.ok /\ result = NoValue
    /\ \E order \in KeyOrders(IF built.cmd.c = "Keys" THEN storage ELSE EmptyMap) :
          result' = IF UsesLock(built.cmd)
                    THEN LockedResult(built.cmd, storage, order)
                    ELSE UnlockedResult(built.cmd)
    /\ storage' = IF UsesLock(built.cmd) THEN StoreAfter(built.cmd, storage) ELSE storage
    /\ before' = storage
    /\ latest' = IF IsWrite(built) THEN Written(latest, built.cmd) ELSE latest
    /\ nwrites' = IF IsWrite(built) THEN nwrites + 1 ELSE nwrites
    /\ UNCHANGED <<request, built>>
    /\ UNCHANGED <<conn, holder>>
    /\ UNCHANGED codecVars

NextCommands ==
    \/ \E resp \in CommandInputs : TryFrom(resp)
    \/ Execute

SpecCommands == InitCommands /\ [][NextCommands]_vars

(***************************************************************************)
(* Properties of the codec, checked under SpecCodec.                       *)
(***************************************************************************)
\* every delivered byte has been handed to decode, which has been called
\* after the last append
AllDelivered == wire = <<>> /\ last.res # "NoCall"

\* sent is exactly one message: decode of all of it in one call gives w, a
\* value that takes every byte
OneMessage(w) == w.res = "Some" /\ w.removed = Len(sent)

\* C1: Fragmentation invariance.  When sent is one valid message, then for
\* every way of cutting it into pieces appended one at a time, with decode
\* called after each append, the calls never fail, yield exactly one value
\* once all pieces are in, that value is the one decoded from the whole
\* message in one call (w), and the bytes consumed over all calls are the
\* bytes consumed in that one call.
FragmentsAgree(w) ==
    OneMessage(w) =>
        /\ status \in {"open", "end"}
        /\ Len(frames) <= 1
        /\ removed <= w.removed
        /\ frames # <<>> =>
             /\ frames[1] = w.val
             /\ marks[1] = w.removed
             /\ removed = w.removed
        /\ AllDelivered => Len(frames) = 1
C1_FragmentationInvariance == FragmentsAgree(decode(sent, NewState))

\* C1 witness: a two-element array has been decoded from pieces: the call
\* that gave the value saw only the tail of the message, the bytes before it
\* having been consumed by earlier calls that gave no value.
C1_Witness ==
    /\ item.t = "Array" /\ Len(item.a) = 2
    /\ item.a[1].t = "BulkString" /\ Len(item.a[1].s) = 2
    /\ frames = <<item>>
    /\ last.res = "Some"
    /\ last.removed < Len(sent)
    /\ Len(last.had) < 4

\* C2 (as claimed): a call that returns no value consumes 0 bytes and
\* leaves the buffer as it was.
C2_NoValueConsumesNothing ==
    last.res = "None" => (last.removed = 0 /\ src = last.had)

\* C2 (amended): a call that returns no value returns none at all, and
\* removes only bytes of parts it has parsed completely: the buffer always
\* holds, in order, exactly the delivered bytes not yet removed, what is
\* left after such a call cannot be parsed any further without more
\* input, and nothing is removed while the decoder is still at the start
\* of a value (a prefix of an inline line).  A call that returns a value
\* consumes at least one byte.
Unparsed(r) == r.kind = "Eoi" /\ r.removed = 0 /\ r.state = state
C2_NoValueKeepsUnparsedBytes ==
    /\ status = "open" =>
         src = SubSeq(sent, removed + 1, Len(sent) - Len(wire))
    /\ last.res = "None" =>
         /\ last.val = NoValue
         /\ src = Drop(last.had, last.removed)
         /\ state.pos = "Start" => last.removed = 0
         /\ Unparsed(resp_parser(src, state, 0))
    /\ last.res = "Some" => (last.removed > 0 /\ last.val # NoValue)

\* C2 witness: a call on a proper prefix of an array has returned no value
\* and removed bytes, the rest of the prefix staying in the buffer.
C2_Witness ==
    /\ last.res = "None"
    /\ last.removed > 0
    /\ src # <<>>
    /\ wire # <<>>
    /\ state.pos = "Data"

NoErrorDetail(v) == v.t # "Error" \/ v.d = <<>>

\* C3 (as claimed): for every value v without an Error detail, decoding
\* encode(v) yields v.
C3_RoundTripEveryValue ==
    (item # NoValue /\ NoErrorDetail(item) /\ AllDelivered /\ ~is_readable)
        => frames = <<item>>

\* the values the decoder can read back: arrays of bulk strings and nulls
IsRequestArray(v) ==
    /\ v.t = "Array"
    /\ \A i \in 1..Len(v.a) : v.a[i].t \in {"BulkString", "Null"}

\* C3 (amended): for every Array v whose elements are BulkStrings or
\* Nulls, decoding encode(v) yields v and consumes all its bytes.
C3_RoundTripArrays ==
    (IsRequestArray(item) /\ AllDelivered)
        => (frames = <<item>> /\ removed = Len(sent) /\ src = <<>>)

\* C3 witness: an array with a payload that holds CR LF, and a null, has
\* made the round trip.
C3_Witness ==
    /\ item = Array(<<BulkString(CRLF), Null>>)
    /\ AllDelivered
    /\ frames = <<item>>

NullBulk == <<"$", "-", "1", CR, LF>>
NullArray == <<"*", "-", "1", CR, LF>>
StartsWith(s, p) == Len(s) >= Len(p) /\ Take(s, Len(p)) = p

\* C4 (as claimed): the input $-1\r\n decodes to Null, and so does *-1\r\n.
C4_NullMarkersDecodeToNull ==
    ((sent = NullBulk \/ sent = NullArray) /\ AllDelivered) => frames = <<Null>>

\* C4 (amended): *-1\r\n, like every negative count, decodes to Null and
\* consumes its count line only: no element is read, the bytes that follow
\* are decoded as the next messages.  $-1\r\n decodes to Null where an
\* element of an array is read; sent as a message of its own it is an
\* inline line and decodes to the array of the one bulk string "$-1".
C4_NegativeLengths ==
    /\ (frames # <<>> /\ (StartsWith(sent, NullArray)
                          \/ StartsWith(sent, <<"*", "-", "2", CR, LF>>)))
           => (frames[1] = Null /\ marks[1] = 5)
    /\ (sent = NullArray \o <<"$", "1", CR, LF, "a", CR, LF>> /\ AllDelivered
        /\ ~is_readable)
           => frames = <<Null, Array(<<BulkString(<<"$", "1">>)>>),
                         Array(<<BulkString(<<"a">>)>>)>>
    /\ (sent = <<"*", "1", CR, LF>> \o NullBulk /\ AllDelivered)
           => frames = <<Array(<<Null>>)>>
    /\ (sent = <<"*", "1", CR, LF, "$", "-", "3", CR, LF, "a", CR, LF>>
        /\ frames # <<>>)
           => (frames[1] = Array(<<Null>>) /\ marks[1] = 9)
    /\ (sent = NullBulk /\ AllDelivered)
           => frames = <<Array(<<BulkString(<<"$", "-", "1">>)>>)>>

\* C4 witness: *-1\r\n followed by more bytes: Null first, then the bytes
\* after the count line as messages of their own.
C4_Witness ==
    /\ sent = NullArray \o <<"$", "1", CR, LF, "a", CR, LF>>
    /\ Len(frames) = 3
    /\ frames[1] = Null

(***************************************************************************)
(* Properties of the server, checked under SpecServer.                     *)
(***************************************************************************)
RECURSIVE AllFrames(_)
FramesFrom(r) == IF r.res = "Some" THEN <<r.val>> \o AllFrames(r.src) ELSE <<>>
\* the values the bytes hold, up to the first message that does not decode
AllFrames(bytes) == FramesFrom(decode(bytes, NewState))
\* everything the peer of connection c sends
SentBy(c) == ScriptBytes(conn[c].script, c)
IsPrefix(p, q) == Len(p) <= Len(q) /\ p = Take(q, Len(p))
\* the task of c has decoded a request and not yet written its reply
Executing(c) == conn[c].pc \in {"exec", "locked", "unlock", "send"}
\* reply is a reply to the request whose command construction gave t
ReplyFits(t, reply) ==
    CASE ~t.ok -> reply = Error(<<t.err>>, <<>>)
      [] t.cmd.c \in {"Ping", "Command"} -> reply = UnlockedResult(t.cmd)
      [] t.cmd.c = "Get" -> reply.t \in {"BulkString", "Null"}
      [] t.cmd.c = "Set" -> reply = SimpleString(<<"OK">>)
      [] t.cmd.c = "Append" -> reply.t = "Integer" /\ reply.n >= Len(t.cmd.v)
      [] t.cmd.c = "Keys" -> reply.t = "Array"
      [] OTHER -> reply.t = "Integer" /\ reply.n \in {0, 1}

\* C5: on every connection the requests taken up are, in order, the
\* messages the peer sent; the replies written are, in order, replies to
\* those requests, one each; and a request is being executed only when the
\* replies to all requests before it have been handed to the writer.
C5_PerConnectionOrder ==
    \A c \in Conns :
        /\ IsPrefix(conn[c].reqs, AllFrames(SentBy(c)))
        /\ Len(conn[c].sink) = Len(conn[c].reqs) - (IF Executing(c) THEN 1 ELSE 0)
        /\ \A i \in 1..Len(conn[c].sink) :
               ReplyFits(try_from(conn[c].reqs[i]), conn[c].sink[i])
        /\ conn[c].pc \in {"exec", "locked", "unlock"} =>
               conn[c].cmd = try_from(conn[c].reqs[Len(conn[c].reqs)]).cmd
\* a third request is being executed after two replies of different kinds
C5_Witness ==
    \E c \in Conns :
        /\ conn[c].script = "misc" /\ conn[c].pc = "exec"
        /\ Len(conn[c].sink) = 2 /\ Len(conn[c].reqs) = 3
        /\ conn[c].sink[1].t = "Error" /\ conn[c].sink[2].t = "Integer"

\* the task of c is between storage.lock() and the drop of the guard
InStore(c) == conn[c].pc \in {"locked", "unlock"}

\* C6: at most one task is inside a read or mutation of the store, and it
\* is the holder of the lock; a command locks at most once; a task that is
\* reading its socket, handing a reply to the writer, or finished does not
\* hold the lock.
C6_StoreMutualExclusion ==
    /\ \A c, d \in Conns : InStore(c) /\ InStore(d) => c = d
    /\ \A c \in Conns : InStore(c) <=> holder = c
    /\ \A c \in Conns : conn[c].acq <= 1
    /\ \A c \in Conns : conn[c].pc \in {"poll", "send", "closed"} => holder # c
    /\ \A c \in Conns : conn[c].pc = "send" /\ UsesLock(conn[c].cmd) => conn[c].acq = 1
\* one task is inside the store while another waits for the lock
C6_Witness ==
    \E c, d \in Conns :
        /\ c # d /\ conn[c].pc = "unlock" /\ holder = c
        /\ conn[d].pc = "exec" /\ UsesLock(conn[d].cmd)

\* C7: when every connection does SET k_i v_i and then GET k_i on its own
\* key, the reply to each SET is OK and the reply to each GET is
\* BulkString(v_i), whatever the interleaving.
C7_OwnWritesObserved ==
    (\A c \in Conns : conn[c].script = "setget") =>
        \A c \in Conns :
            /\ Len(conn[c].sink) >= 1 => conn[c].sink[1] = SimpleString(<<"OK">>)
            /\ Len(conn[c].sink) >= 2 => conn[c].sink[2] = BulkString(ValueOf(c))
            /\ Len(conn[c].sink) >= 1 =>
                   KeyOf(c) \in DOMAIN storage /\ storage[KeyOf(c)] = ValueOf(c)
\* every connection has its GET answered, the last SET having run after
\* another connection's GET was answered
C7_Witness ==
    /\ \A c \in Conns : conn[c].script = "setget" /\ Len(conn[c].sink) = 2
    /\ \A c, d \in Conns : KeyOf(c) = KeyOf(d) => c = d
    /\ DOMAIN storage = {KeyOf(c) : c \in Conns}

\* the loop of c ended on an Err of try_next that decode raised, or on the
\* panic of decode
DecodeFailed(c) == conn[c].exit \in {"error", "panic"}

\* C8 (as claimed): a connection whose decoder reported an error has been
\* sent an Error reply, after the replies to its requests, before it closed.
C8_DecodeErrorReplied ==
    \A c \in Conns :
        DecodeFailed(c) =>
            /\ Len(conn[c].sink) = Len(conn[c].reqs) + 1
            /\ conn[c].sink[Len(conn[c].sink)].t = "Error"

\* the guard of one of the actions of Task(d) holds
CanStep(d) ==
    \/ conn[d].pc = "poll" /\ (conn[d].is_readable \/ ~conn[d].eof)
    \/ conn[d].pc = "exec" /\ (~UsesLock(conn[d].cmd) \/ MutexFree(holder))
    \/ conn[d].pc \in {"locked", "unlock", "send"}
\* the task of d has ended, or can take a step, or waits for a lock whose
\* holder can take a step
Served(d) ==
    \/ conn[d].pc = "closed"
    \/ CanStep(d)
    \/ /\ conn[d].pc = "exec" /\ holder \in Conns \ {d}
       /\ InStore(holder) /\ CanStep(holder)

\* C9: a connection whose decoder failed is closed and holds no lock; the
\* requests it executed are the messages before the one that failed, all
\* answered, and the SET it sent after that message has not reached the
\* store; every other connection can still take its next step, and one that
\* ended at the end of its input was answered on all it sent.
C9_DecodeErrorIsLocal ==
    /\ \A c \in Conns :
           DecodeFailed(c) =>
               /\ conn[c].pc = "closed" /\ holder # c
               /\ conn[c].reqs = AllFrames(SentBy(c))
               /\ Len(conn[c].sink) = Len(conn[c].reqs)
    /\ \A c \in Conns :
           conn[c].script \in DecodeErrorScripts =>
               /\ Len(conn[c].reqs) <= 1
               /\ KeyOf(c) \notin DOMAIN storage
    /\ \A d \in Conns : Served(d)
    /\ \A d \in Conns :
           conn[d].exit = "eof" =>
               /\ conn[d].script \notin DecodeErrorScripts
               /\ Len(conn[d].sink) = Len(AllFrames(SentBy(d)))
\* one connection has failed to decode and another, which had written to
\* the store before, is served after it
C9_Witness ==
    \E c, d \in Conns :
        /\ DecodeFailed(c) /\ conn[d].script = "setget"
        /\ conn[d].pc = "locked" /\ Len(conn[d].sink) = 1

\* the replies to the messages of ParseErrors and to the PING after them
ParseErrorReplies ==
    << Error(<<"Invalid command">>, <<>>),
       Error(<<"No command specified">>, <<>>),
       Error(<<"Invalid command">>, <<>>),
       Error(<<"Not enough arguments">>, <<>>),
       Error(<<"Not enough arguments">>, <<>>),
       Error(<<"Invalid argument, must be BulkString">>, <<>>),
       SimpleString(<<"PONG">>) >>

\* C10: a connection that sends an unknown name, an empty array, a null
\* array, GET without key, SET without value and GET of a null element, and
\* then PING, is sent for each of them the Error with its own message, one
\* each and in order, and then PONG; none of these requests locks or
\* changes the store, and the connection stays open until its input ends.
C10_ParseErrorRecoverable ==
    \A c \in Conns :
        conn[c].script = "parseerr" =>
            /\ IsPrefix(conn[c].sink, ParseErrorReplies)
            /\ Len(conn[c].sink) = Len(conn[c].reqs) - (IF Executing(c) THEN 1 ELSE 0)
            /\ conn[c].pc = "exec" => conn[c].cmd.c = "Ping"
            /\ conn[c].pc = "send" =>
                   conn[c].frame = ParseErrorReplies[Len(conn[c].reqs)]
            /\ conn[c].acq = 0 /\ holder # c
            /\ KeyOf(c) \notin DOMAIN storage
            /\ conn[c].exit \in {"", "eof"}
            /\ conn[c].exit = "eof" => conn[c].sink = ParseErrorReplies
\* all six errors and the PONG have been written
C10_Witness ==
    \E c \in Conns :
        /\ conn[c].script = "parseerr" /\ conn[c].sink = ParseErrorReplies
        /\ \E d \in Conns : d # c /\ storage # EmptyMap

\* the request the task of c has decoded last
LastReq(c) == conn[c].reqs[Len(conn[c].reqs)]
\* the request of c that is being executed, or was executed last, is COMMAND
AtCommand(c) ==
    /\ conn[c].reqs # <<>>
    /\ try_from(LastReq(c)).ok /\ try_from(LastReq(c)).cmd.c = "Command"

\* C11: COMMAND is built as a command, and its execution fails: while it
\* is executed the task never takes the lock, the reply handed to the
\* writer is Error("NOT_IMPLEMENTED"), which is not the "Invalid command" of
\* a name outside the table, the store keeps what it held (nothing, when no
\* connection writes), and the connection goes on to its next request.
C11_CommandNotImplemented ==
    /\ \A c \in Conns :
           AtCommand(c) =>
               /\ conn[c].acq = 0 /\ holder # c
               /\ conn[c].pc \in {"exec", "send", "poll", "closed"}
               /\ conn[c].pc = "send" =>
                      conn[c].frame = Error(<<"NOT_IMPLEMENTED">>, <<>>)
               /\ ~Executing(c) =>
                      conn[c].sink[Len(conn[c].sink)] = Error(<<"NOT_IMPLEMENTED">>, <<>>)
    /\ \A c \in Conns :
           conn[c].script = "misc" =>
               /\ Len(conn[c].sink) >= 1 =>
                      /\ conn[c].sink[1] = Error(<<"NOT_IMPLEMENTED">>, <<>>)
                      /\ conn[c].sink[1] # Error(<<"Invalid command">>, <<>>)
               /\ conn[c].exit \in {"", "eof"}
               /\ conn[c].exit = "eof" => Len(conn[c].sink) = 3
    /\ (\A c \in Conns : conn[c].script \in {"misc", "parseerr"}) => storage = EmptyMap
\* COMMAND was answered and the next request of the connection is served,
\* in a store that another connection has written
C11_Witness ==
    \E c \in Conns :
        /\ conn[c].script = "misc" /\ Len(conn[c].sink) = 2
        /\ conn[c].sink[1] = Error(<<"NOT_IMPLEMENTED">>, <<>>)
        /\ conn[c].sink[2].t = "Integer"
        /\ storage # EmptyMap

(***************************************************************************)
(* Properties of command construction and execution, checked under         *)
(* SpecCommands.                                                           *)
(***************************************************************************)
\* resp is an array whose first element is a string that reads name
\* whatever its case, followed by n more elements
IsCall(resp, names, n) ==
    /\ resp.t = "Array" /\ Len(resp.a) = n + 1
    /\ resp.a[1].t \in {"BulkString", "SimpleString"}
    /\ to_uppercase(resp.a[1].s) \in names
OneKeyNames == { <<"G", "E", "T">>, <<"K", "E", "Y", "S">>, <<"E", "X", "I", "S", "T", "S">> }
KeyValueNames == { <<"S", "E", "T">>, <<"A", "P", "P", "E", "N", "D">> }
\* the bytes *1\r\n$3\r\nGET\r\n
GetWithoutKey == <<"*", "1", CR, LF, "$", "3", CR, LF, "G", "E", "T", CR, LF>>
\* construction failed and nothing was or can be executed
Rejected == ~built.ok /\ built.cmd = NoCmd /\ built.err # "" /\ result = NoValue

\* C12: GET, KEYS and EXISTS without argument, SET and APPEND without
\* argument or with one alone, are rejected by command construction
\* ("Not enough arguments" when the arguments given are bulk strings) and no
\* command is executed; the value that *1\r\n$3\r\nGET\r\n decodes to is rejected
\* and is not the GET of the empty key.
C12_ArityEnforced ==
    /\ IsCall(request, OneKeyNames, 0) =>
           Rejected /\ built.err = "Not enough arguments"
    /\ IsCall(request, KeyValueNames, 0) =>
           Rejected /\ built.err = "Not enough arguments"
    /\ IsCall(request, KeyValueNames, 1) =>
           /\ Rejected
           /\ request.a[2].t = "BulkString" => built.err = "Not enough arguments"
    /\ request = decode(GetWithoutKey, NewState).val =>
           /\ IsCall(request, OneKeyNames, 0)
           /\ Rejected
           /\ built # CmdOk(RedisCmd("Get", <<>>, <<>>, FALSE))
\* GET without key was rejected in a store that holds a key
C12_Witness ==
    /\ request = decode(GetWithoutKey, NewState).val
    /\ built = CmdErr("Not enough arguments")
    /\ storage # EmptyMap

\* the first element of the array is a string, the name
HasName(resp) ==
    resp.t = "Array" /\ resp.a # <<>> /\ resp.a[1].t \in {"BulkString", "SimpleString"}
\* C13 (as claimed): command construction answers "No command specified"
\* exactly for the empty array and the array whose name is empty (or is no
\* string), and "Invalid command" for every array whose name is not empty
\* and not in the table.
C13_NameErrorsDistinct ==
    request.t = "Array" =>
        /\ built.err = "No command specified" <=>
               \/ request.a = <<>>
               \/ ~HasName(request)
               \/ request.a[1].s = <<>>
        /\ (/\ HasName(request) /\ request.a[1].s # <<>>
            /\ to_uppercase(request.a[1].s) \notin TableNames) =>
               built.err = "Invalid command"

\* the arguments command construction reads for the name: one for GET,
\* KEYS, EXISTS and PING, two for SET and APPEND, as far as they are there
ConsumedArgs(resp) ==
    IF IsCall(resp, KeyValueNames, Len(resp.a) - 1)
    THEN 2..(IF Len(resp.a) < 3 THEN Len(resp.a) ELSE 3)
    ELSE IF IsCall(resp, OneKeyNames \cup {<<"P", "I", "N", "G">>}, Len(resp.a) - 1)
    THEN 2..(IF Len(resp.a) < 2 THEN Len(resp.a) ELSE 2)
    ELSE {}
\* C14 (as claimed): an array with a value that is not a BulkString in a
\* place command construction reads is rejected, whatever the command.
C14_ArgumentsMustBeBulk ==
    (/\ request.t = "Array" /\ request.a # <<>>
     /\ \E i \in ConsumedArgs(request) : request.a[i].t # "BulkString") =>
        Rejected

\* execute has run the command built last, and it was a c
Executed(c) == built.ok /\ built.cmd.c = c /\ result # NoValue
\* the value of key k when execute began, the empty string when k was absent
Old(k) == IF k \in DOMAIN before THEN before[k] ELSE <<>>
\* execute left every key but k as it was and added no key but k
OnlyTouched(k) ==
    /\ DOMAIN storage = DOMAIN before \cup {k}
    /\ \A x \in DOMAIN before \ {k} : storage[x] = before[x]

\* C15: after APPEND(k, v) the store holds old ++ v under k, old being
\* the value of k before, or the empty string when k was absent, the reply
\* is Integer(len(old) + len(v)) and no other key has changed; so SET k "ab"
\* is answered OK, APPEND k "cd" on what it left is answered Integer(4) and
\* GET k on what that left is answered BulkString("abcd").
C15_AppendAccumulates ==
    /\ Executed("Append") =>
           /\ storage[built.cmd.k] = Old(built.cmd.k) \o built.cmd.v
           /\ result = Integer(Len(Old(built.cmd.k)) + Len(built.cmd.v))
           /\ OnlyTouched(built.cmd.k)
    /\ (Executed("Set") /\ built.cmd.v = <<"a", "b">>) =>
           result = SimpleString(<<"OK">>) /\ storage[built.cmd.k] = <<"a", "b">>
    /\ (/\ Executed("Append") /\ built.cmd.v = <<"c", "d">>
        /\ built.cmd.k \in DOMAIN before /\ before[built.cmd.k] = <<"a", "b">>) =>
           /\ result = Integer(4)
           /\ storage[built.cmd.k] = <<"a", "b", "c", "d">>
    /\ (/\ Executed("Get") /\ built.cmd.k \in DOMAIN before
        /\ before[built.cmd.k] = <<"a", "b", "c", "d">>) =>
           result = BulkString(<<"a", "b", "c", "d">>)
\* GET k is answered "abcd" after SET k "ab" and APPEND k "cd"
C15_Witness ==
    /\ Executed("Get") /\ built.cmd.k = <<"k">>
    /\ result = BulkString(<<"a", "b", "c", "d">>)
    /\ nwrites = 2 /\ latest = storage

\* C16: the store holds for every key the value that the writes issued so
\* far give it; GET(k) is answered with that value as a BulkString, or Null
\* when k was never written; EXISTS(k) is answered Integer(1) when GET(k)
\* would be answered a BulkString and Integer(0) otherwise; neither is
\* answered an Error.
C16_ReadsLatestWrite ==
    /\ storage = latest
    /\ Executed("Get") =>
           /\ result = IF built.cmd.k \in DOMAIN latest
                       THEN BulkString(latest[built.cmd.k]) ELSE Null
           /\ storage = before
    /\ Executed("Exists") =>
           /\ result = Integer(IF built.cmd.k \in DOMAIN latest THEN 1 ELSE 0)
           /\ storage = before
    /\ (built.ok /\ built.cmd.c \in {"Get", "Exists"}) => result.t # "Error"
\* EXISTS is answered 0 for a key never written, in a store that holds
\* another key written twice
C16_Witness ==
    /\ Executed("Exists") /\ result = Integer(0)
    /\ nwrites = 2 /\ Cardinality(DOMAIN latest) = 1
    /\ \E k \in DOMAIN latest : Len(latest[k]) = 4

\* C17: after SET(k, v) the reply is SimpleString("OK"), the store holds v
\* under k whether or not k was there, and every other key is as it was.
C17_SetIsUpsert ==
    Executed("Set") =>
        /\ result = SimpleString(<<"OK">>)
        /\ built.cmd.k \in DOMAIN storage
        /\ storage[built.cmd.k] = built.cmd.v
        /\ OnlyTouched(built.cmd.k)
\* a SET has replaced another value of its key
C17_Witness ==
    /\ Executed("Set")
    /\ built.cmd.k \in DOMAIN before
    /\ before[built.cmd.k] # built.cmd.v

\* C18: the reply to KEYS(pattern) is an Array of BulkStrings that holds
\* each key of the store once and nothing else, whatever the pattern.
C18_KeysListsEveryKey ==
    Executed("Keys") =>
        /\ result.t = "Array"
        /\ Len(result.a) = Cardinality(DOMAIN storage)
        /\ {result.a[i] : i \in 1..Len(result.a)} = {BulkString(k) : k \in DOMAIN storage}
        /\ storage = before
\* KEYS with the pattern "k" lists the key "j" too
C18_Witness ==
    /\ Executed("Keys") /\ built.cmd.v = <<"k">>
    /\ DOMAIN storage = {<<"k">>, <<"j">>}
    /\ Len(result.a) = 2

(***************************************************************************)
(* Further properties of the codec, checked under SpecCodec.               *)
(***************************************************************************)
\* C19 (as claimed): encoding the value a peer sends succeeds, with the
\* encoder of codec.rs (whose bytes are sent) and with the encoder of
\* main.rs, for every variant and for arrays of every variant.
C19_EncoderTotal ==
    item # NoValue =>
        /\ sent = encode(item) /\ sent # <<>>
        /\ main_encode(item).res = "Ok"
        /\ main_encode(item).bytes = sent

\* C20: when the peer sends an array of bulk strings (and nulls), whatever
\* bytes the payloads hold and however the reads cut them, decode never
\* fails; every element the decoder has completed is the element sent, a
\* payload it has taken is the L bytes of the element it belongs to; the
\* value it produces is the array sent; and encoding that value gives back
\* the bytes sent.
C20_BinarySafe ==
    IsRequestArray(item) =>
        /\ status \in {"open", "end"}
        /\ Len(state.elems) <= Len(item.a)
        /\ \A i \in 1..Len(state.elems) : state.elems[i] = item.a[i]
        /\ state.pos = "Term" =>
               /\ Len(state.elems) < Len(item.a)
               /\ item.a[Len(state.elems) + 1] = BulkString(state.data)
               /\ Len(state.data) = state.len
        /\ frames # <<>> => frames = <<item>> /\ encode(frames[1]) = sent
        /\ AllDelivered => frames # <<>>
\* an array of two payloads made of CR and LF has been decoded from pieces,
\* the last of which began with the LF of the second payload
C20_Witness ==
    /\ item = Array(<<BulkString(<<CR, LF>>), BulkString(<<LF, CR>>)>>)
    /\ frames = <<item>>
    /\ encode(frames[1]) = sent
    /\ last.had = <<LF, CR, CR, LF>>


\* ------------------------------------------------------------------
\* One value per call of decode
\* ------------------------------------------------------------------

\* The bytes of the stream between the end of frame i-1 and the end of frame i
OwnBytes(i) ==
    Take(Drop(sent, IF i = 1 THEN 0 ELSE marks[i - 1]),
         marks[i] - (IF i = 1 THEN 0 ELSE marks[i - 1]))

OneValue(r, own, v) == r.res = "Some" /\ r.val = v /\ r.removed = Len(own)

\* decode on a fresh codec holding exactly the bytes own gives the value v
\* and consumes all of them
DecodesAlone(own, v) ==
    OneValue(decode(own, NewState), own, v)

\* C21: a call of decode hands on at most one value and leaves the decoder
\* at the start of a new value; the values of a stream of several messages
\* come one per call, in the order of the stream, and each is the value of
\* exactly its own bytes decoded alone, whatever came before it.
C21_OneValuePerCall ==
    /\ Len(frames) = Len(marks)
    /\ last.res = "Some" => state = NewState /\ last.val = frames[Len(frames)]
    /\ last.res # "Some" => last.val = NoValue
    /\ IsPrefix(frames, AllFrames(sent))
    /\ \A i \in 1..Len(frames) : DecodesAlone(OwnBytes(i), frames[i])

\* Two values have been handed on from a buffer that held every byte after
\* the first message, and a third message is left in the buffer.
C21_Witness ==
    /\ Len(frames) = 2
    /\ last.res = "Some"
    /\ wire = <<>>
    /\ Len(last.had) = Len(sent) - marks[1]
    /\ Len(last.had) > last.removed
    /\ src # <<>>
    /\ C21_OneValuePerCall

\* ------------------------------------------------------------------
\* Elements of an array
\* ------------------------------------------------------------------

\* The parser run w ended with an error where an element of an array starts
RejectedAtElement(w) ==
    /\ w.kind = "Err"
    /\ w.state.pos = "Elem"
    /\ Len(w.state.elems) < w.state.count

\* The stream starts with an array one of whose elements does not start
\* with `$`
BadElement == RejectedAtElement(resp_parser(sent, NewState, 0))

\* The byte of the stream where that element starts has been read
BadElementRead(w) == Len(sent) - Len(wire) > w.removed

\* C22: an element of an array that starts with a byte other than `$`
\* makes decode return a parse error and no value, wherever the element
\* stands in the array and however the input is cut into reads.
C22_NonBulkElementIsError ==
    BadElement =>
        /\ frames = <<>>
        /\ status \in {"open", "error"}
        /\ BadElementRead(resp_parser(sent, NewState, 0))
               => (status = "error" /\ last.res = "Err" /\ last.val = NoValue)

\* ------------------------------------------------------------------
\* Commands that only read
\* ------------------------------------------------------------------

ReadOnlyNames == {"Ping", "Get", "Keys", "Exists", "Command"}

\* the task of c is executing a command that only reads
Reading(c) == Executing(c) /\ conn[c].cmd.c \in ReadOnlyNames

\* C23: a step of a task that is executing PING, GET, KEYS, EXISTS or
\* COMMAND leaves the store as it is, keys and values, whatever the other
\* tasks have done before it and do after it.
C23_ReadsLeaveStore ==
    [][\A c \in Conns :
          (Reading(c) /\ conn'[c] # conn[c]) => storage' = storage]_vars

\* A task has run GET, KEYS or EXISTS on a store that is not empty and
\* still holds the lock, while another connection is open.
C23_Witness ==
    \E c, d \in Conns :
        /\ c # d /\ conn[d].pc # "closed"
        /\ Reading(c) /\ conn[c].pc = "unlock"
        /\ storage # EmptyMap

\* ------------------------------------------------------------------
\* The keys of the store
\* ------------------------------------------------------------------

\* the task of c runs EXISTS on the store in this step
ExistsRuns(c) ==
    /\ conn[c].pc = "locked" /\ conn[c].cmd.c = "Exists"
    /\ conn'[c].pc = "unlock"

\* C24: no step of any task, be it a command, the close of a connection, a
\* decode error, a request that is not a command or a command whose
\* execution fails, takes a key out of the store; EXISTS on a key that is in
\* the store, hence on every key written by SET or APPEND at any time
\* before, replies Integer(1).
C24_KeysOnlyGrow ==
    [][/\ DOMAIN storage \subseteq DOMAIN storage'
       /\ \A c \in Conns :
             (ExistsRuns(c) /\ conn[c].cmd.k \in DOMAIN storage)
                => conn'[c].frame = Integer(1)]_vars

\* EXISTS has replied Integer(1) for the key that another connection wrote
\* with APPEND before it closed.
C24_Witness ==
    \E c, d \in Conns :
        /\ c # d
        /\ conn[d].script = "append" /\ conn[d].pc = "closed"
        /\ conn[c].script = "misc" /\ Len(conn[c].sink) >= 2
        /\ conn[c].sink[2] = Integer(1)
        /\ SharedKey \in DOMAIN storage

\* ------------------------------------------------------------------
\* Concurrent APPENDs on one key
\* ------------------------------------------------------------------

\* the APPEND of c on the shared key has run on the store
Appended(c) ==
    /\ conn[c].script = "append"
    /\ \/ conn[c].sink # <<>>
       \/ Len(conn[c].reqs) = 1 /\ conn[c].pc \in {"unlock", "send"}
\* the reply to that APPEND, written or about to be
AppendReply(c) ==
    IF conn[c].sink # <<>> THEN conn[c].sink[1] ELSE conn[c].frame
\* the orders of the connections of the set S
OrdersOf(S) ==
    {o \in [1..Cardinality(S) -> S] :
        \A i, j \in 1..Cardinality(S) : i # j => o[i] # o[j]}
\* the chunks of the first n connections of the order o, one after another
Joined(o, n) == Flatten([i \in 1..n |-> ValueOf(o[i])])
\* the value under the shared key and the replies are those of the APPENDs
\* of the connections of S run one after the other in some order
AppendsInSomeOrder(S) ==
    \E o \in OrdersOf(S) :
        /\ EntryOrEmpty(storage, SharedKey) = Joined(o, Cardinality(S))
        /\ \A i \in 1..Cardinality(S) :
              AppendReply(o[i]) = Integer(Len(Joined(o, i)))

\* C25: when several connections APPEND to the same key, the value of the
\* key is at every moment the chunks of the APPENDs that have run, each
\* whole and once, in some order, and the replies are the lengths of the
\* value after each APPEND of that order: pairwise distinct running totals
\* the greatest of which is the length of the value.
C25_AppendsAtomic ==
    /\ AppendsInSomeOrder({c \in Conns : Appended(c)})
    /\ (SharedKey \in DOMAIN storage) = (\E c \in Conns : Appended(c))

\* Every connection has sent APPEND on the shared key while the others were
\* doing the same, all have their reply, and the chunk of the last
\* connection stands first in the value.
C25_Witness ==
    /\ \A c \in Conns : Appended(c) /\ conn[c].sink # <<>>
    /\ Take(storage[SharedKey], Len(ValueOf(NConn))) = ValueOf(NConn)
    /\ Len(storage[SharedKey]) = NConn * Len(ValueOf(NConn))

\* ------------------------------------------------------------------
\* Progress
\* ------------------------------------------------------------------

\* the task of c has read again after writing a reply, or has ended
Replied(c) == conn[c].pc \in {"poll", "closed"}
\* every request the peer of c has sent in full before the first message
\* the decoder rejects has its reply
AllReplied(c) == Len(conn[c].sink) = Len(AllFrames(SentBy(c)))

\* C26: when every task that can run does run, a task that is inside the
\* store leaves it and releases the lock, a task that has decoded a request
\* (be it waiting for the lock) writes its reply, and in the end every
\* request received in full on a connection has been replied to.
C26_Progress ==
    /\ \A c \in Conns : InStore(c) ~> (~InStore(c) /\ holder # c)
    /\ \A c \in Conns : Executing(c) ~> Replied(c)
    /\ \A c \in Conns : <>[]AllReplied(c)

\* A task waits for the lock with a command that needs it while another
\* task holds the lock and has not yet run its command.
C26_Witness ==
    \E c, d \in Conns :
        /\ c # d /\ conn[c].pc = "locked" /\ holder = c
        /\ conn[d].pc = "exec" /\ UsesLock(conn[d].cmd)
        /\ ~AllReplied(c) /\ ~AllReplied(d)
====
